---- MODULE Spec2Model ----
(***************************************************************************)
(* Model of packages/@uppy/companion/src/server/controllers/url.js: the    *)
(* URL validator, the streaming download (downloadURL) and the two request *)
(* handlers (meta, get).                                                   *)
(*                                                                         *)
(* The collaborators the controller only calls (getURLMeta and the         *)
(* Uploader) are modelled at their interface.  The `request` transport is  *)
(* the environment: it fires the handlers downloadURL registers, following *)
(* the event protocol of the library (one 'response'; body fragments only  *)
(* between 'response' and 'end'/'error'; 'end' after every response body,  *)
(* whatever its status, and also when the response closes after an error). *)
(***************************************************************************)
EXTENDS Integers, Sequences, FiniteSets, TLC

\* Largest number of body fragments the transport produces in one session.
MaxFragments == 2

\* Request slots (req.id).
Reqs == {"r1", "r2"}

\* JavaScript null, as passed in onDataChunk(err, chunk).
Null == "null"

\* Body fragments the transport can produce.
Chunks == {"a", "b"}

\* Response status codes of the origin.
Statuses == {200, 300, 404}

\* Sizes getURLMeta can resolve.
Sizes == {0, 1024}

\* Candidate URLs (req.body.url).  The text Null is a missing url (undefined
\* or null); scheme "" means no explicit scheme;
\* host is the syntactic form of the host: "fqdn" has a top-level label,
\* "bare" has none, "ip" is a numeric address; target is the address space
\* the host resolves to.
URLs ==
  { [text |-> "", scheme |-> "", host |-> "none", target |-> "none"],
    [text |-> Null, scheme |-> "", host |-> "none", target |-> "none"],
    [text |-> "ftp://example.com/f", scheme |-> "ftp", host |-> "fqdn", target |-> "public"],
    [text |-> "example.com/f", scheme |-> "", host |-> "fqdn", target |-> "public"],
    [text |-> "http://localhost/f", scheme |-> "http", host |-> "bare", target |-> "local"],
    [text |-> "http://example.com/f", scheme |-> "http", host |-> "fqdn", target |-> "public"],
    [text |-> "https://example.com/f", scheme |-> "https", host |-> "fqdn", target |-> "public"],
    [text |-> "http://127.0.0.1/admin", scheme |-> "http", host |-> "ip", target |-> "local"] }

NoURL == [text |-> "", scheme |-> "", host |-> "none", target |-> "none"]

VARIABLES
  req,        \* req[r]: [kind, url, debug]; kind "absent" for an unused slot
  pc,         \* pc[r]: position of the handler: "start", "awaitMeta", "done"
  responses,  \* responses[r]: the HTTP responses written to res, in order
  metaCalls,  \* metaCalls[r]: the blockLocalIPs argument of each getURLMeta call
  uploader,   \* uploader[r]: the Uploader constructed for r, or NoUploader
  readyCb,    \* readyCb[r]: "none", "registered" (onSocketReady) or "fired"
  dlCalls,    \* dlCalls[r]: the blockLocalIPs argument of each downloadURL call
  transport,  \* transport[r]: [phase, status, errored] of the request(opts) object
  dataListener, \* dataListener[r]: resp.on('data', ...) has been registered
  received,   \* received[r]: body fragments the transport produced, in order
  calls,      \* calls[r]: the <<err, chunk>> arguments of each call of the
              \* handleChunk of the uploader of r
  caught,     \* caught[r]: the errors the handler's catch block caught (and logged)
  opts,       \* opts[r]: the options of the latest request(opts) of downloadURL
  readyFired  \* readyFired[r]: how often the uploader invoked the readiness callback

vars == <<req, pc, responses, metaCalls, uploader, readyCb, dlCalls,
          transport, dataListener, received, calls, caught, opts, readyFired>>

NoOpts ==
  [uri |-> "", method |-> "",
   followRedirect |-> [url |-> "", blockLocalIPs |-> FALSE],
   agentClass |-> [protocol |-> "", blockLocalIPs |-> FALSE]]

NoUploader == [constructed |-> FALSE, hasError |-> FALSE, size |-> 0, token |-> ""]

IdleTransport == [phase |-> "idle", status |-> 0, errored |-> FALSE]

------------------------------------------------------------------------------
\* validator.isURL(url, {protocols, require_protocol, require_tld})
isURL(url, protocols, require_protocol, require_tld) ==
  /\ url.host # "none"
  /\ (url.scheme = "" => ~require_protocol)
  /\ (url.scheme # "" => url.scheme \in protocols)
  /\ (require_tld => url.host \in {"fqdn", "ip"})

\* Faulty variant of validateURL: require_protocol is left out.
validateURLNoProtocol(url, debug) ==
  IF url.text \in {"", Null}
    THEN FALSE
    ELSE IF ~isURL(url, {"http", "https"}, FALSE, ~debug)
      THEN FALSE
      ELSE TRUE

\* Faulty variant of validateURL: require_tld is set whatever debug is.
validateURLAlwaysTLD(url, debug) ==
  IF url.text \in {"", Null}
    THEN FALSE
    ELSE IF ~isURL(url, {"http", "https"}, TRUE, TRUE)
      THEN FALSE
      ELSE TRUE

\* validateURL(url, debug); !url holds of the empty string and of a missing url
validateURL(url, debug) ==
  IF url.text \in {"", Null}
    THEN FALSE
    ELSE IF ~isURL(url, {"http", "https"}, TRUE, ~debug)
      THEN FALSE
      ELSE TRUE

\* Faulty variant of blockLocalIPs: the flag is passed on without negation.
blockLocalIPsInverted(debug) == debug

\* The blockLocalIPs argument the handlers pass: !debug
blockLocalIPs(debug) == ~debug

------------------------------------------------------------------------------
\* Collaborators, at their interface.

\* getURLMeta(url, blockLocalIPs): the failures it can reject with.  status 0
\* stands for an error object without a status property.  With blockLocalIPs
\* a url that targets a local address is rejected by the policy.
getURLMetaFailures(url, block) ==
  IF block /\ url.target = "local"
    THEN { [cause |-> "policy", status |-> 0] }
    ELSE { [cause |-> "upstream", status |-> 404],
           [cause |-> "upstream", status |-> 0],
           [cause |-> "transport", status |-> 0] }

\* getURLMeta(url, blockLocalIPs): the metadata it can resolve with.
getURLMetaResults(url, block) ==
  IF block /\ url.target = "local"
    THEN {}
    ELSE { [size |-> s, type |-> "image/png"] : s \in Sizes }

\* new Uploader(Uploader.reqToOptions(req, size))
newUploader(r, size, hasError) ==
  [constructed |-> TRUE, hasError |-> hasError, size |-> size, token |-> r]

\* uploader.getResponse()
getResponse(u) ==
  IF u.hasError
    THEN [status |-> 400, body |-> [message |-> "invalid uploader options"]]
    ELSE [status |-> 200, body |-> [token |-> u.token]]

\* getRedirectEvaluator(url, blockLocalIPs): the evaluator, by what it is
\* built with.
getRedirectEvaluator(url, block) == [url |-> url, blockLocalIPs |-> block]

\* getProtectedHttpAgent(protocol, blockLocalIPs): the agent class, by what it
\* is built with.
getProtectedHttpAgent(protocol, block) == [protocol |-> protocol, blockLocalIPs |-> block]

\* The protected agent of downloadURL refuses to connect to a local address.
agentBlocks(r) ==
  /\ dlCalls[r] # <<>>
  /\ dlCalls[r][Len(dlCalls[r])]
  /\ req[r].url.target = "local"

------------------------------------------------------------------------------
\* res.status(status).json(body)
respond(r, status, body) ==
  responses' = [responses EXCEPT ![r] = Append(@, [status |-> status, body |-> body])]

\* Faulty variant of boundUploader: the uploader is kept in a variable shared
\* by all invocations of get, so every download is bound to the same one.
boundUploaderShared(r) ==
  CHOOSE t \in {uploader[q].token : q \in {x \in Reqs : uploader[x].constructed}} : TRUE

\* The uploader whose handleChunk the download of r is bound to (line 128:
\* uploader.handleChunk.bind(uploader), the const of this invocation of get),
\* by its token.
boundUploader(r) == uploader[r].token

\* onDataChunk(err, chunk), bound to uploader.handleChunk
onDataChunk(r, err, chunk) ==
  calls' = [calls EXCEPT ![boundUploader(r)] = Append(@, <<err, chunk>>)]

\* Faulty variant of errStatus: the status of the failure is ignored.
errStatusAlways500(err) == 500

\* err.status || 500
errStatus(err) == IF err.status # 0 THEN err.status ELSE 500

\* new Error(`URL server responded with status: ${resp.statusCode}`)
statusError(statusCode) ==
  "URL server responded with status: " \o ToString(statusCode)

\* Faulty variant of downloadURL: the request is issued with the redirect
\* evaluator but without the protected agent.
downloadURLNoAgent(r, block) ==
  /\ dlCalls' = [dlCalls EXCEPT ![r] = Append(@, block)]
  /\ opts' = [opts EXCEPT ![r] =
       [uri |-> req[r].url.text, method |-> "GET",
        followRedirect |-> getRedirectEvaluator(req[r].url.text, block),
        agentClass |-> NoOpts.agentClass]]
  /\ transport' = [transport EXCEPT ![r] = [phase |-> "connecting", status |-> 0, errored |-> FALSE]]

\* downloadURL(url, onDataChunk, blockLocalIPs, traceId): issues request(opts)
downloadURL(r, block) ==
  /\ dlCalls' = [dlCalls EXCEPT ![r] = Append(@, block)]
  /\ opts' = [opts EXCEPT ![r] =
       [uri |-> req[r].url.text, method |-> "GET",
        followRedirect |-> getRedirectEvaluator(req[r].url.text, block),
        agentClass |-> getProtectedHttpAgent(req[r].url.scheme, block)]]
  /\ transport' = [transport EXCEPT ![r] = [phase |-> "connecting", status |-> 0, errored |-> FALSE]]

\* Faulty variant of onResponse: the data listener is registered whatever
\* the status.
onResponseAlwaysListens(r, statusCode) ==
  /\ transport[r].phase = "connecting"
  /\ ~transport[r].errored
  /\ ~agentBlocks(r)
  /\ transport' = [transport EXCEPT ![r].phase = "responded", ![r].status = statusCode]
  /\ dataListener' = [dataListener EXCEPT ![r] = TRUE]
  /\ IF statusCode >= 300
       THEN onDataChunk(r, statusError(statusCode), Null)
       ELSE UNCHANGED calls
  /\ UNCHANGED <<req, pc, responses, metaCalls, uploader, readyCb, readyFired, dlCalls,
                 opts, received, caught>>

\* Faulty variant of onResponse: the status test is > 300 instead of >= 300.
onResponseAbove300(r, statusCode) ==
  /\ transport[r].phase = "connecting"
  /\ ~transport[r].errored
  /\ ~agentBlocks(r)
  /\ transport' = [transport EXCEPT ![r].phase = "responded", ![r].status = statusCode]
  /\ IF statusCode > 300
       THEN /\ onDataChunk(r, statusError(statusCode), Null)
            /\ UNCHANGED dataListener
       ELSE /\ dataListener' = [dataListener EXCEPT ![r] = TRUE]
            /\ UNCHANGED calls
  /\ UNCHANGED <<req, pc, responses, metaCalls, uploader, readyCb, readyFired, dlCalls,
                 opts, received, caught>>

\* .on('response', (resp) => ...)
onResponse(r, statusCode) ==
  /\ transport[r].phase = "connecting"
  /\ ~transport[r].errored
  /\ ~agentBlocks(r)
  /\ transport' = [transport EXCEPT ![r].phase = "responded", ![r].status = statusCode]
  /\ IF statusCode >= 300
       THEN /\ onDataChunk(r, statusError(statusCode), Null)
            /\ UNCHANGED dataListener
       ELSE /\ dataListener' = [dataListener EXCEPT ![r] = TRUE]
            /\ UNCHANGED calls
  /\ UNCHANGED <<req, pc, responses, metaCalls, uploader, readyCb, readyFired, dlCalls,
                 opts, received, caught>>

\* Faulty variant of onData: the listener is registered with once(), so only
\* the first fragment is passed on.
onDataOnce(r, chunk) ==
  /\ transport[r].phase = "responded"
  /\ ~transport[r].errored
  /\ Len(received[r]) < MaxFragments
  /\ received' = [received EXCEPT ![r] = Append(@, chunk)]
  /\ IF dataListener[r] /\ received[r] = <<>>
       THEN onDataChunk(r, Null, chunk)
       ELSE UNCHANGED calls
  /\ UNCHANGED <<req, pc, responses, metaCalls, uploader, readyCb, readyFired, dlCalls,
                 opts, transport, dataListener, caught>>

\* resp 'data': the transport produces a body fragment; the listener of
\* line 62, when registered, passes it on.
onData(r, chunk) ==
  /\ transport[r].phase = "responded"
  /\ ~transport[r].errored
  /\ Len(received[r]) < MaxFragments
  /\ received' = [received EXCEPT ![r] = Append(@, chunk)]
  /\ IF dataListener[r]
       THEN onDataChunk(r, Null, chunk)
       ELSE UNCHANGED calls
  /\ UNCHANGED <<req, pc, responses, metaCalls, uploader, readyCb, readyFired, dlCalls,
                 opts, transport, dataListener, caught>>

\* .on('end', () => onDataChunk(null, null))
onEnd(r) ==
  /\ transport[r].phase = "responded"
  /\ transport' = [transport EXCEPT ![r].phase = "ended"]
  /\ onDataChunk(r, Null, Null)
  /\ UNCHANGED <<req, pc, responses, metaCalls, uploader, readyCb, readyFired, dlCalls,
                 opts, dataListener, received, caught>>

\* Faulty variant of onError: the handler also answers the HTTP request.
onErrorResponds(r, err) ==
  /\ transport[r].phase \in {"connecting", "responded"}
  /\ ~transport[r].errored
  /\ transport' = [transport EXCEPT ![r].errored = TRUE]
  /\ onDataChunk(r, err, Null)
  /\ respond(r, 500, [message |-> "failed to fetch URL metadata"])
  /\ UNCHANGED <<req, pc, metaCalls, uploader, readyCb, readyFired, dlCalls, opts,
                 dataListener, received, caught>>

\* .on('error', (err) => ...)
onError(r, err) ==
  /\ transport[r].phase \in {"connecting", "responded"}
  /\ ~transport[r].errored
  /\ transport' = [transport EXCEPT ![r].errored = TRUE]
  /\ onDataChunk(r, err, Null)
  /\ UNCHANGED <<req, pc, responses, metaCalls, uploader, readyCb, readyFired, dlCalls,
                 opts, dataListener, received, caught>>

\* Errors the transport can emit.
TransportErrors == {"ECONNRESET"}

------------------------------------------------------------------------------
\* The meta handler.

\* meta, lines 79-87: validation, then the getURLMeta call (the await).
meta(r) ==
  /\ req[r].kind = "meta"
  /\ pc[r] = "start"
  /\ IF ~validateURL(req[r].url, req[r].debug)
       THEN /\ respond(r, 400, [error |-> "Invalid request body"])
            /\ pc' = [pc EXCEPT ![r] = "done"]
            /\ UNCHANGED metaCalls
       ELSE /\ metaCalls' = [metaCalls EXCEPT ![r] = Append(@, blockLocalIPs(req[r].debug))]
            /\ pc' = [pc EXCEPT ![r] = "awaitMeta"]
            /\ UNCHANGED responses
  /\ UNCHANGED <<req, uploader, readyCb, readyFired, dlCalls, opts, transport,
                 dataListener, received, calls, caught>>

\* meta, line 88: getURLMeta resolved; res.json(urlMeta)
metaResolved(r) ==
  /\ req[r].kind = "meta"
  /\ pc[r] = "awaitMeta"
  /\ \E urlMeta \in getURLMetaResults(req[r].url, metaCalls[r][Len(metaCalls[r])]) :
       respond(r, 200, urlMeta)
  /\ pc' = [pc EXCEPT ![r] = "done"]
  /\ UNCHANGED <<req, metaCalls, uploader, readyCb, readyFired, dlCalls, opts,
                 transport, dataListener, received, calls, caught>>

\* meta, lines 89-93: getURLMeta rejected; the catch block
metaRejected(r) ==
  /\ req[r].kind = "meta"
  /\ pc[r] = "awaitMeta"
  /\ \E err \in getURLMetaFailures(req[r].url, metaCalls[r][Len(metaCalls[r])]) :
       /\ caught' = [caught EXCEPT ![r] = Append(@, err)]
       /\ respond(r, errStatus(err), [message |-> "failed to fetch URL metadata"])
  /\ pc' = [pc EXCEPT ![r] = "done"]
  /\ UNCHANGED <<req, metaCalls, uploader, readyCb, readyFired, dlCalls, opts,
                 transport, dataListener, received, calls>>

------------------------------------------------------------------------------
\* The get handler.

\* Faulty variant of get: the url is not validated.
getUnvalidated(r) ==
  /\ req[r].kind = "get"
  /\ pc[r] = "start"
  /\ metaCalls' = [metaCalls EXCEPT ![r] = Append(@, blockLocalIPs(req[r].debug))]
  /\ pc' = [pc EXCEPT ![r] = "awaitMeta"]
  /\ UNCHANGED <<req, responses, uploader, readyCb, readyFired, dlCalls, opts,
                 transport, dataListener, received, calls, caught>>

\* get, lines 104-113: validation, then the getURLMeta call (the await).
get(r) ==
  /\ req[r].kind = "get"
  /\ pc[r] = "start"
  /\ IF ~validateURL(req[r].url, req[r].debug)
       THEN /\ respond(r, 400, [error |-> "Invalid request body"])
            /\ pc' = [pc EXCEPT ![r] = "done"]
            /\ UNCHANGED metaCalls
       ELSE /\ metaCalls' = [metaCalls EXCEPT ![r] = Append(@, blockLocalIPs(req[r].debug))]
            /\ pc' = [pc EXCEPT ![r] = "awaitMeta"]
            /\ UNCHANGED responses
  /\ UNCHANGED <<req, uploader, readyCb, readyFired, dlCalls, opts, transport,
                 dataListener, received, calls, caught>>

\* Faulty variant of getHasError: the return is missing, so the handler goes
\* on to register the readiness callback and to respond again.
getHasErrorNoReturn(r, u) ==
  /\ responses' = [responses EXCEPT ![r] =
       Append(Append(@, getResponse(u)), getResponse(u))]
  /\ readyCb' = [readyCb EXCEPT ![r] = "registered"]
  /\ UNCHANGED <<readyFired, dlCalls, opts, transport>>

\* get, lines 119-123: the uploader reports a pre-flight error
getHasError(r, u) ==
  /\ respond(r, getResponse(u).status, getResponse(u).body)
  /\ UNCHANGED <<readyCb, readyFired, dlCalls, opts, transport>>

\* Faulty variant of getAccept: the download is started at once instead of
\* in the readiness callback.
getAcceptEager(r, u) ==
  /\ downloadURL(r, blockLocalIPs(req[r].debug))
  /\ respond(r, getResponse(u).status, getResponse(u).body)
  /\ UNCHANGED <<readyCb, readyFired>>

\* Faulty variant of getAccept: the response is not sent at acceptance.
getAcceptDeferred(r, u) ==
  /\ readyCb' = [readyCb EXCEPT ![r] = "registered"]
  /\ UNCHANGED readyFired
  /\ UNCHANGED <<responses, dlCalls, opts, transport>>

\* Faulty variant of getAccept: the download is started at acceptance and
\* the readiness callback, which starts it too, is registered as well.
getAcceptEagerAndRegister(r, u) ==
  /\ readyCb' = [readyCb EXCEPT ![r] = "registered"]
  /\ downloadURL(r, blockLocalIPs(req[r].debug))
  /\ respond(r, getResponse(u).status, getResponse(u).body)
  /\ UNCHANGED readyFired

\* get, lines 125-134: the readiness callback is registered and the
\* uploader's response is sent
getAccept(r, u) ==
  /\ readyCb' = [readyCb EXCEPT ![r] = "registered"]
  /\ UNCHANGED readyFired
  /\ respond(r, getResponse(u).status, getResponse(u).body)
  /\ UNCHANGED <<dlCalls, opts, transport>>

\* get, lines 113-134: getURLMeta resolved; the rest of the try block
getResolved(r) ==
  /\ req[r].kind = "get"
  /\ pc[r] = "awaitMeta"
  /\ \E urlMeta \in getURLMetaResults(req[r].url, metaCalls[r][Len(metaCalls[r])]) :
     \E hasError \in BOOLEAN :
       LET u == newUploader(r, urlMeta.size, hasError) IN
         /\ uploader' = [uploader EXCEPT ![r] = u]
         /\ IF u.hasError THEN getHasError(r, u) ELSE getAccept(r, u)
  /\ pc' = [pc EXCEPT ![r] = "done"]
  /\ UNCHANGED <<req, metaCalls, dataListener, received, calls, caught>>

\* Faulty variant of getRejected: the failure is logged and the import goes
\* on with an unknown size.
getRejectedSwallows(r) ==
  /\ req[r].kind = "get"
  /\ pc[r] = "awaitMeta"
  /\ \E err \in getURLMetaFailures(req[r].url, metaCalls[r][Len(metaCalls[r])]) :
       caught' = [caught EXCEPT ![r] = Append(@, err)]
  /\ LET u == newUploader(r, 0, FALSE) IN
       /\ uploader' = [uploader EXCEPT ![r] = u]
       /\ readyCb' = [readyCb EXCEPT ![r] = "registered"]
       /\ respond(r, getResponse(u).status, getResponse(u).body)
  /\ pc' = [pc EXCEPT ![r] = "done"]
  /\ UNCHANGED readyFired
  /\ UNCHANGED <<req, metaCalls, dlCalls, opts, transport, dataListener, received,
                 calls>>

\* get, lines 135-139: getURLMeta rejected; the catch block
getRejected(r) ==
  /\ req[r].kind = "get"
  /\ pc[r] = "awaitMeta"
  /\ \E err \in getURLMetaFailures(req[r].url, metaCalls[r][Len(metaCalls[r])]) :
       /\ caught' = [caught EXCEPT ![r] = Append(@, err)]
       /\ respond(r, errStatus(err), [message |-> "failed to fetch URL metadata"])
  /\ pc' = [pc EXCEPT ![r] = "done"]
  /\ UNCHANGED <<req, metaCalls, uploader, readyCb, readyFired, dlCalls, opts,
                 transport, dataListener, received, calls>>

\* The callback of lines 126-129, invoked by the uploader when its socket
\* connects: it starts the download.
socketReady(r) ==
  /\ readyCb[r] = "registered"
  /\ readyCb' = [readyCb EXCEPT ![r] = "fired"]
  /\ readyFired' = [readyFired EXCEPT ![r] = @ + 1]
  /\ downloadURL(r, blockLocalIPs(req[r].debug))
  /\ UNCHANGED <<req, pc, responses, metaCalls, uploader, dataListener, received, calls,
                 caught>>

------------------------------------------------------------------------------
\* Requests the handlers can be invoked with.
Requests ==
  [kind : {"meta", "get"}, url : URLs, debug : BOOLEAN]

Absent == [kind |-> "absent", url |-> NoURL, debug |-> FALSE]

InitRest ==
  /\ pc = [r \in Reqs |-> "start"]
  /\ responses = [r \in Reqs |-> <<>>]
  /\ metaCalls = [r \in Reqs |-> <<>>]
  /\ uploader = [r \in Reqs |-> NoUploader]
  /\ readyCb = [r \in Reqs |-> "none"]
  /\ dlCalls = [r \in Reqs |-> <<>>]
  /\ transport = [r \in Reqs |-> IdleTransport]
  /\ dataListener = [r \in Reqs |-> FALSE]
  /\ received = [r \in Reqs |-> <<>>]
  /\ calls = [r \in Reqs |-> <<>>]
  /\ caught = [r \in Reqs |-> <<>>]
  /\ opts = [r \in Reqs |-> NoOpts]
  /\ readyFired = [r \in Reqs |-> 0]

\* One request in flight.
Init ==
  /\ req \in [Reqs -> Requests \cup {Absent}]
  /\ req["r1"] # Absent
  /\ req["r2"] = Absent
  /\ InitRest

Next ==
  \E r \in Reqs :
    \/ meta(r)
    \/ metaResolved(r)
    \/ metaRejected(r)
    \/ get(r)
    \/ getResolved(r)
    \/ getRejected(r)
    \/ socketReady(r)
    \/ \E statusCode \in Statuses : onResponse(r, statusCode)
    \/ \E chunk \in Chunks : onData(r, chunk)
    \/ onEnd(r)
    \/ \E err \in TransportErrors : onError(r, err)

Spec == Init /\ [][Next]_vars

------------------------------------------------------------------------------
\* An uploader that does not keep to a one-shot readiness notification.

\* Largest number of times an uploader invokes the readiness callback.
MaxReady == 2

\* The callback of lines 126-129, invoked once more by the uploader: nothing
\* in get prevents it from starting another download.  The new request(opts)
\* object has no listener on its response yet; the events followed from here
\* on are those of the new object.
socketReadyAgain(r) ==
  /\ readyCb[r] = "fired"
  /\ readyFired[r] < MaxReady
  /\ readyFired' = [readyFired EXCEPT ![r] = @ + 1]
  /\ downloadURL(r, blockLocalIPs(req[r].debug))
  /\ dataListener' = [dataListener EXCEPT ![r] = FALSE]
  /\ received' = [received EXCEPT ![r] = <<>>]
  /\ UNCHANGED <<req, pc, responses, metaCalls, uploader, readyCb, calls, caught>>

NextReady ==
  \/ Next
  \/ \E r \in Reqs : socketReadyAgain(r)

\* One request in flight: any metadata request, or the import of a public
\* url.
InitReady ==
  /\ Init
  /\ req["r1"].kind = "get" => req["r1"].url.text \in {"http://example.com/f", ""}
  /\ req["r1"].kind = "get" => ~req["r1"].debug

\* One request in flight, with an uploader that may invoke the readiness
\* callback repeatedly.
SpecReady == InitReady /\ [][NextReady]_vars

------------------------------------------------------------------------------
\* Two requests in flight at once: an import of a public url on r1, and any
\* request on r2.
InitConc ==
  /\ req \in [Reqs -> Requests]
  /\ req["r1"].kind = "get"
  /\ req["r1"].url.text = "http://example.com/f"
  /\ ~req["r1"].debug
  /\ req["r2"].url.text \in {"https://example.com/f", "ftp://example.com/f",
                             "http://127.0.0.1/admin"}
  /\ InitRest

SpecConc == InitConc /\ [][Next]_vars

------------------------------------------------------------------------------
\* Exceptions thrown inside the try blocks of the handlers, other than a
\* rejection of getURLMeta.  The statement that throws has written nothing
\* to res.

\* The error object of such an exception: it carries no status.
Exception == [cause |-> "exception", status |-> 0]

\* meta, lines 81-82 and get, lines 106-107: reading req.companion.options
\* or req.body throws; the catch block answers.
handlerThrows(r) ==
  /\ req[r].kind \in {"meta", "get"}
  /\ pc[r] = "start"
  /\ caught' = [caught EXCEPT ![r] = Append(@, Exception)]
  /\ respond(r, errStatus(Exception), [message |-> "failed to fetch URL metadata"])
  /\ pc' = [pc EXCEPT ![r] = "done"]
  /\ UNCHANGED <<req, metaCalls, uploader, readyCb, readyFired, dlCalls, opts,
                 transport, dataListener, received, calls>>

\* get, line 117: Uploader.reqToOptions or the Uploader constructor throws
\* after getURLMeta resolved; the catch block answers.
getThrows(r) ==
  /\ req[r].kind = "get"
  /\ pc[r] = "awaitMeta"
  /\ getURLMetaResults(req[r].url, metaCalls[r][Len(metaCalls[r])]) # {}
  /\ caught' = [caught EXCEPT ![r] = Append(@, Exception)]
  /\ respond(r, errStatus(Exception), [message |-> "failed to fetch URL metadata"])
  /\ pc' = [pc EXCEPT ![r] = "done"]
  /\ UNCHANGED <<req, metaCalls, uploader, readyCb, readyFired, dlCalls, opts,
                 transport, dataListener, received, calls>>

\* get, lines 117-139: the uploader is constructed without pre-flight error
\* and the readiness callback is registered (line 126); then
\* uploader.getResponse() (line 131) or res.status(...).json(...) (line 134)
\* throws, and the catch block answers.  The callback stays registered.
getThrowsAfterRegister(r) ==
  /\ req[r].kind = "get"
  /\ pc[r] = "awaitMeta"
  /\ \E urlMeta \in getURLMetaResults(req[r].url, metaCalls[r][Len(metaCalls[r])]) :
       uploader' = [uploader EXCEPT ![r] = newUploader(r, urlMeta.size, FALSE)]
  /\ readyCb' = [readyCb EXCEPT ![r] = "registered"]
  /\ caught' = [caught EXCEPT ![r] = Append(@, Exception)]
  /\ respond(r, errStatus(Exception), [message |-> "failed to fetch URL metadata"])
  /\ pc' = [pc EXCEPT ![r] = "done"]
  /\ UNCHANGED <<req, metaCalls, readyFired, dlCalls, opts, transport, dataListener,
                 received, calls>>

NextExc ==
  \/ Next
  \/ \E r \in Reqs : handlerThrows(r)
  \/ \E r \in Reqs : getThrows(r)
  \/ \E r \in Reqs : getThrowsAfterRegister(r)

\* One request in flight, with exceptions in the handlers.
SpecExc == Init /\ [][NextExc]_vars

------------------------------------------------------------------------------
\* Properties.

\* The three kinds of onDataChunk call.
IsEnd(c) == c[1] = Null /\ c[2] = Null
IsError(c) == c[1] # Null
IsData(c) == c[1] = Null /\ c[2] # Null
IsTerminal(c) == IsEnd(c) \/ IsError(c)

\* The chunks of the data calls of a sequence of calls, in order.
RECURSIVE DataOf(_)
DataOf(cs) ==
  IF cs = <<>> THEN <<>>
  ELSE IF IsData(Head(cs)) THEN <<Head(cs)[2]>> \o DataOf(Tail(cs))
  ELSE DataOf(Tail(cs))

Handled == {r \in Reqs : req[r].kind # "absent"}

InvalidBody == [error |-> "Invalid request body"]
FailedBody == [message |-> "failed to fetch URL metadata"]

\* C1: in every session onDataChunk receives at most one terminal event
\* (the end sentinel or an error).
C1_AtMostOneTerminal ==
  \A r \in Handled :
    Cardinality({i \in DOMAIN calls[r] : IsTerminal(calls[r][i])}) <= 1

\* C2: once onDataChunk has been called with the end sentinel or an error,
\* it is never called again with a data chunk.
C2_NoDataAfterTerminal ==
  \A r \in Handled :
    \A i, j \in DOMAIN calls[r] :
      (i < j /\ IsTerminal(calls[r][i])) => ~IsData(calls[r][j])

\* C2 witness: a session that delivered a fragment and then a terminal event,
\* and one more event after it.
C2_Witness ==
  \E r \in Handled :
    /\ Len(calls[r]) >= 3
    /\ IsData(calls[r][1])
    /\ IsTerminal(calls[r][Len(calls[r]) - 1])
    /\ IsTerminal(calls[r][Len(calls[r])])

\* C3: no download is started, no transport event occurs and no call reaches
\* onDataChunk before the uploader has invoked the readiness callback.
C3_NoFetchBeforeReady ==
  \A r \in Handled :
    readyCb[r] # "fired" =>
      /\ dlCalls[r] = <<>>
      /\ transport[r] = IdleTransport
      /\ received[r] = <<>>
      /\ calls[r] = <<>>

\* C3 witness: an accepted import that is still waiting for readiness, the
\* response already sent.
C3_Witness ==
  \E r \in Handled :
    /\ req[r].kind = "get"
    /\ pc[r] = "done"
    /\ readyCb[r] = "registered"
    /\ responses[r] # <<>>
    /\ dlCalls[r] = <<>>

\* C4: when the response status is >= 300, onDataChunk receives an error and
\* no data event, whatever fragments the transport produces afterwards.
C4_StatusErrorNoData ==
  \A r \in Handled :
    transport[r].status >= 300 =>
      /\ calls[r] # <<>>
      /\ calls[r][1] = <<statusError(transport[r].status), Null>>
      /\ \A i \in DOMAIN calls[r] : ~IsData(calls[r][i])

\* C4 witness: a 404 session in which the transport produced body fragments.
C4_Witness ==
  \E r \in Handled :
    /\ transport[r].status = 404
    /\ Len(received[r]) = MaxFragments
    /\ calls[r] # <<>>

\* C5: a request whose url validateURL rejects is answered 400 with the
\* generic body and causes no getURLMeta call, no Uploader, no readiness
\* callback and no download.
C5_InvalidNoIO ==
  \A r \in Handled :
    ~validateURL(req[r].url, req[r].debug) =>
      /\ pc[r] \in {"start", "done"}
      /\ pc[r] = "done" => responses[r] = <<[status |-> 400, body |-> InvalidBody]>>
      /\ metaCalls[r] = <<>>
      /\ uploader[r] = NoUploader
      /\ readyCb[r] = "none"
      /\ dlCalls[r] = <<>>
      /\ calls[r] = <<>>

\* C5 witness: an answered import request with a url of a disallowed scheme.
C5_Witness ==
  \E r \in Handled :
    /\ req[r].kind = "get"
    /\ req[r].url.scheme = "ftp"
    /\ pc[r] = "done"
    /\ responses[r] # <<>>

\* C6: an import of a url that targets a local address, with debug false,
\* delivers no data event and is answered with a generic failure, never 2xx.
C6_LocalBlocked ==
  \A r \in Handled :
    (req[r].kind = "get" /\ req[r].url.target = "local" /\ ~req[r].debug) =>
      /\ \A i \in DOMAIN calls[r] : ~IsData(calls[r][i])
      /\ \A i \in DOMAIN responses[r] :
           /\ ~(responses[r][i].status \in 200..299)
           /\ responses[r][i].body \in {InvalidBody, FailedBody}
      /\ pc[r] = "done" => Len(responses[r]) = 1

\* C6 witness: the import of http://127.0.0.1/admin with debug false, answered.
C6_Witness ==
  \E r \in Handled :
    /\ req[r].kind = "get"
    /\ req[r].url.text = "http://127.0.0.1/admin"
    /\ ~req[r].debug
    /\ pc[r] = "done"
    /\ responses[r] = <<[status |-> 500, body |-> FailedBody]>>

\* C7: an import with a valid url, resolved metadata and an uploader without
\* pre-flight error is answered with the status and body of
\* uploader.getResponse(), already before readiness and before any fetch
\* event, and no fetch outcome changes or adds to that response.
C7_AcceptanceResponse ==
  \A r \in Handled :
    (req[r].kind = "get" /\ uploader[r].constructed /\ ~uploader[r].hasError) =>
      /\ readyCb[r] # "none"
      /\ responses[r] = <<[status |-> getResponse(uploader[r]).status,
                           body |-> getResponse(uploader[r]).body]>>

\* C7 witness: an accepted import whose fetch failed with an upstream status
\* after the response was sent.
C7_Witness ==
  \E r \in Handled :
    /\ req[r].kind = "get"
    /\ uploader[r].constructed /\ ~uploader[r].hasError
    /\ transport[r].status = 404
    /\ responses[r] # <<>>

\* C8: when getURLMeta fails in the meta handler, the response status is the
\* failure's status if it carries one and 500 otherwise, and the body is the
\* same fixed message for every failure cause.
C8_MetaFailureResponse ==
  \A r \in Handled :
    (req[r].kind = "meta" /\ caught[r] # <<>>) =>
      /\ Len(caught[r]) = 1
      /\ responses[r] =
           <<[status |-> IF caught[r][1].status # 0 THEN caught[r][1].status ELSE 500,
              body |-> FailedBody]>>

\* C8 witness: a metadata request that failed with an upstream status.
C8_Witness ==
  \E r \in Handled :
    /\ req[r].kind = "meta"
    /\ caught[r] # <<>>
    /\ caught[r][1].status = 404
    /\ responses[r] # <<>>

\* C9: when getURLMeta fails in the get handler, getURLMeta is not called
\* again, no Uploader is constructed, no readiness callback is registered,
\* no download is started, and the failure response is sent.
C9_GetFailureAborts ==
  \A r \in Handled :
    (req[r].kind = "get" /\ caught[r] # <<>>) =>
      /\ pc[r] = "done"
      /\ Len(metaCalls[r]) = 1
      /\ uploader[r] = NoUploader
      /\ readyCb[r] = "none"
      /\ dlCalls[r] = <<>>
      /\ calls[r] = <<>>
      /\ responses[r] =
           <<[status |-> IF caught[r][1].status # 0 THEN caught[r][1].status ELSE 500,
              body |-> FailedBody]>>

\* C9 witness: an import whose metadata request failed in the transport.
C9_Witness ==
  \E r \in Handled :
    /\ req[r].kind = "get"
    /\ caught[r] # <<>>
    /\ caught[r][1].cause = "transport"
    /\ pc[r] = "done"

\* C10: for a response status < 300, the data events passed to onDataChunk
\* are exactly the body fragments the transport produced, in arrival order,
\* also after the stream has failed.
C10_DataInOrder ==
  \A r \in Handled :
    (transport[r].phase \in {"responded", "ended"} /\ transport[r].status < 300) =>
      DataOf(calls[r]) = received[r]

\* C10 witness: a 200 session that delivered two different fragments and
\* then failed.
C10_Witness ==
  \E r \in Handled :
    /\ transport[r].status = 200
    /\ transport[r].errored
    /\ Len(received[r]) >= 2
    /\ received[r][1] # received[r][2]
    /\ DataOf(calls[r]) = received[r]

\* The transport of the session of r emits no further event.
SessionOver(r) ==
  \/ transport[r].phase = "ended"
  \/ transport[r].phase = "connecting" /\ transport[r].errored

\* The number of terminal events the uploader of r received.
Terminals(r) == Cardinality({i \in DOMAIN calls[r] : IsTerminal(calls[r][i])})

\* C11: every started download session terminates exactly once: when its
\* transport has ended or failed, onDataChunk has received exactly one
\* terminal event (the end sentinel or an error).
C11_TerminatesExactlyOnce ==
  \A r \in Handled :
    (dlCalls[r] # <<>> /\ SessionOver(r)) => Terminals(r) = 1

\* C12 as stated: downloadURL is invoked at most once for a request,
\* whatever the uploader does with the readiness callback.
C12_AtMostOneDownload ==
  \A r \in Handled : Len(dlCalls[r]) <= 1

\* C12 as amended: downloadURL is invoked exactly once per invocation of
\* the readiness callback, hence at most once when the uploader invokes the
\* callback at most once.
C12_OneDownloadPerReady ==
  \A r \in Handled :
    /\ Len(dlCalls[r]) = readyFired[r]
    /\ readyFired[r] <= 1 => Len(dlCalls[r]) <= 1

\* C12 witness: an import whose uploader invoked the callback once, with one
\* download, which has delivered events.
C12_Witness ==
  \E r \in Handled :
    /\ readyFired[r] = 1
    /\ Len(dlCalls[r]) = 1
    /\ calls[r] # <<>>

\* The state of request q is left as it is by a step.
Unaffected(q) ==
  /\ req'[q] = req[q] /\ pc'[q] = pc[q] /\ responses'[q] = responses[q]
  /\ metaCalls'[q] = metaCalls[q] /\ uploader'[q] = uploader[q]
  /\ readyCb'[q] = readyCb[q] /\ readyFired'[q] = readyFired[q]
  /\ dlCalls'[q] = dlCalls[q] /\ opts'[q] = opts[q]
  /\ transport'[q] = transport[q] /\ dataListener'[q] = dataListener[q]
  /\ received'[q] = received[q] /\ calls'[q] = calls[q] /\ caught'[q] = caught[q]

\* What the uploader of r received is what the fetch of r produced.
OwnEventsOnly(r) ==
  /\ calls[r] # <<>> => dlCalls[r] # <<>>
  /\ (transport[r].phase = "idle" \/ transport[r].status = 0) =>
       \A i \in DOMAIN calls[r] : ~IsData(calls[r][i])
  /\ (transport[r].status > 0 /\ transport[r].status < 300) =>
       DataOf(calls[r]) = received[r]
  /\ transport[r].status >= 300 =>
       \A i \in DOMAIN calls[r] : ~IsData(calls[r][i])
  /\ \A i \in DOMAIN responses[r] :
       responses[r][i].body \in {[token |-> q] : q \in Reqs}
         => responses[r][i].body = [token |-> r]

\* C13: with concurrent requests, the events of a request's fetch reach only
\* the uploader constructed for that request, and every step of one request
\* leaves the events, outcome and response of every other request as they are.
C13_Isolation ==
  /\ [](\A r \in Reqs : OwnEventsOnly(r))
  /\ [][\E r \in Reqs : \A q \in Reqs \ {r} : Unaffected(q)]_vars

\* C13 witness: two imports whose fetches delivered different data, one of
\* them failed.
C13_Witness ==
  /\ DataOf(calls["r1"]) = <<"a", "b">>
  /\ DataOf(calls["r2"]) = <<"b">>
  /\ transport["r2"].errored
  /\ ~transport["r1"].errored

\* C14: within one request every getURLMeta call and every downloadURL call
\* gets blockLocalIPs = !debug, and the request issued by downloadURL carries
\* the redirect evaluator and the protected agent built with that value; no
\* transport activity exists without them.
C14_SamePolicy ==
  \A r \in Handled :
    /\ \A i \in DOMAIN metaCalls[r] : metaCalls[r][i] = ~req[r].debug
    /\ \A i \in DOMAIN dlCalls[r] : dlCalls[r][i] = ~req[r].debug
    /\ (transport[r] # IdleTransport \/ received[r] # <<>> \/ calls[r] # <<>>) =>
         /\ dlCalls[r] # <<>>
         /\ metaCalls[r] # <<>>
         /\ opts[r].uri = req[r].url.text
         /\ opts[r].method = "GET"
         /\ opts[r].followRedirect =
              [url |-> req[r].url.text, blockLocalIPs |-> ~req[r].debug]
         /\ opts[r].agentClass =
              [protocol |-> req[r].url.scheme, blockLocalIPs |-> ~req[r].debug]

\* C14 witness: an https import with debug false whose metadata request and
\* content fetch were both issued.
C14_Witness ==
  \E r \in Handled :
    /\ req[r].url.scheme = "https"
    /\ ~req[r].debug
    /\ metaCalls[r] = <<TRUE>>
    /\ dlCalls[r] = <<TRUE>>
    /\ transport[r].phase = "responded"

AllowedSchemes == {"http", "https"}

\* C15: validateURL returns false for an empty or missing url and for a url
\* whose scheme is missing or is not http or https, for both values of
\* debug; the handlers answer such a request 400.
C15_RejectsEmptyAndScheme ==
  \A r \in Handled :
    (req[r].url.text \in {"", Null} \/ req[r].url.scheme \notin AllowedSchemes) =>
      /\ ~validateURL(req[r].url, TRUE)
      /\ ~validateURL(req[r].url, FALSE)
      /\ pc[r] # "start" =>
           /\ pc[r] = "done"
           /\ responses[r] = <<[status |-> 400, body |-> InvalidBody]>>

\* C15 witness: a request with an ftp url in debug mode, answered 400.
C15_Witness ==
  \E r \in Handled :
    /\ req[r].url.scheme = "ftp"
    /\ req[r].debug
    /\ pc[r] = "done"
    /\ responses[r] = <<[status |-> 400, body |-> InvalidBody]>>

\* C16: a url with an allowed scheme and a bare hostname is rejected with
\* debug false and accepted with debug true; one whose host has a top-level
\* label is accepted with both; and what is accepted with debug false is
\* accepted with debug true.
C16_TLDOnlyWithoutDebug ==
  \A r \in Handled :
    /\ validateURL(req[r].url, FALSE) => validateURL(req[r].url, TRUE)
    /\ (req[r].url.scheme \in AllowedSchemes /\ req[r].url.host = "bare") =>
         /\ ~validateURL(req[r].url, FALSE)
         /\ validateURL(req[r].url, TRUE)
         /\ pc[r] # "start" => (req[r].debug <=> metaCalls[r] # <<>>)
    /\ (req[r].url.scheme \in AllowedSchemes /\ req[r].url.host = "fqdn") =>
         /\ validateURL(req[r].url, FALSE)
         /\ validateURL(req[r].url, TRUE)

\* C16 witness: http://localhost/f accepted in debug mode, its metadata
\* request issued.
C16_Witness ==
  \E r \in Handled :
    /\ req[r].url.text = "http://localhost/f"
    /\ req[r].debug
    /\ metaCalls[r] # <<>>

\* C17: when the freshly constructed uploader reports hasError(), the
\* request is answered with uploader.getResponse(), no readiness callback is
\* registered and no download is started.
C17_PreflightError ==
  \A r \in Handled :
    (req[r].kind = "get" /\ uploader[r].constructed /\ uploader[r].hasError) =>
      /\ pc[r] = "done"
      /\ responses[r] = <<[status |-> getResponse(uploader[r]).status,
                           body |-> getResponse(uploader[r]).body]>>
      /\ readyCb[r] = "none"
      /\ readyFired[r] = 0
      /\ dlCalls[r] = <<>>
      /\ transport[r] = IdleTransport
      /\ calls[r] = <<>>

\* C17 witness: an import whose uploader reported a pre-flight error, answered.
C17_Witness ==
  \E r \in Handled :
    /\ req[r].kind = "get"
    /\ uploader[r].constructed
    /\ uploader[r].hasError
    /\ responses[r] # <<>>

\* C18: a request is answered with exactly one HTTP response when its
\* handler has run to its end on any path, and with none before; no event
\* of the download writes a response.
C18_ExactlyOneResponse ==
  \A r \in Handled :
    Len(responses[r]) = IF pc[r] = "done" THEN 1 ELSE 0

\* C18 witness: an accepted import whose download failed with a transport
\* error after an upstream status >= 300, with its single response.
C18_Witness ==
  \E r \in Handled :
    /\ req[r].kind = "get"
    /\ transport[r].status = 404
    /\ transport[r].errored
    /\ Len(calls[r]) >= 2
    /\ Len(responses[r]) = 1

\* C19: if downloadURL was invoked for an import, the response sent for it
\* is the uploader's getResponse(), not the 400 'Invalid request body' nor
\* the failure response of the catch block.
C19_FetchOnlyIfAccepted ==
  \A r \in Handled :
    dlCalls[r] # <<>> =>
      /\ uploader[r].constructed
      /\ responses[r] = <<[status |-> getResponse(uploader[r]).status,
                           body |-> getResponse(uploader[r]).body]>>
      /\ responses[r][1].body \notin {InvalidBody, FailedBody}

====
